---- MODULE Spec2Model ----
(***************************************************************************)
(* latest-successful-job-run: resolve the commit hash of the most recent   *)
(* workflow run in which a job (or, without a job name, the whole run)     *)
(* succeeded.                                                              *)
(*                                                                         *)
(* The repository holds three programs that realise the same resolution:   *)
(*   "index.ts"  src/src/index.ts      (TypeScript action)                 *)
(*   "part_000"  src/unnamed/part_000  (Go action, writes the sha output)  *)
(*   "main.go"   src/src/main.go       (Go action, logs the sha only)      *)
(* One behaviour of the model is one execution of one of them against one  *)
(* run history held by the provider (GitHub).                              *)
(*                                                                         *)
(* Strings that the code splits are sequences of tokens, "/" being a token *)
(* of its own: "refs/heads/main" is <<"refs", "/", "heads", "/", "main">>. *)
(* An environment variable that is not set reads as the empty string <<>>; *)
(* the code treats both alike (os.Getenv yields "", and in index.ts        *)
(* undefined and "" are both falsy).  GITHUB_REPOSITORY is taken to be set *)
(* to owner/repo.                                                          *)
(***************************************************************************)
EXTENDS Integers, Sequences, FiniteSets, TLC

\* Longest run history of the repository that is explored.
MaxRuns == 3

Impls   == {"index.ts", "part_000", "main.go"}
GoImpls == {"part_000", "main.go"}

\* Page size the provider applies when a call names none.  GitHub's default is
\* 30; what matters is that a history can be longer than one page.
DefaultPerPage == MaxRuns - 1

\* A commit hash is a string too: <<>> is the empty string.
NotReturned == <<"not returned">>
NoSha       == <<>>
Unread      == "<unread>"

Main    == <<"main">>
Other   == <<"other">>
Branches == {Main, Other}

Job(n, s, c) == [name |-> n, status |-> s, conclusion |-> c]

\* Job lists a run may hold, in the provider's order.
JobLists ==
    { <<Job("build", "completed", "failure"), Job("build", "completed", "success")>>,
      <<Job("test", "completed", "success"), Job("build", "in_progress", "none")>> }

RunStates ==
    { [status |-> "in_progress", conclusion |-> "none"],
      [status |-> "completed",   conclusion |-> "success"],
      [status |-> "completed",   conclusion |-> "failure"] }

Sha(id) == <<"sha", id>>

\* A history of n runs, newest first: the newest run has the largest id.
Histories ==
    UNION { { [i \in 1..n |->
                 [id          |-> n - i + 1,
                  head_sha    |-> Sha(n - i + 1),
                  status      |-> st[i].status,
                  conclusion  |-> st[i].conclusion,
                  head_branch |-> br[i],
                  jobs        |-> jl[i]]] :
              st \in [1..n -> RunStates], br \in [1..n -> Branches],
              jl \in [1..n -> JobLists] } : n \in 0..MaxRuns }

VARIABLES impl, history, pc, jobName, env, currentBranchName, workflowRuns,
          idx, calls, sha, output, err

vars == <<impl, history, pc, jobName, env, currentBranchName, workflowRuns,
          idx, calls, sha, output, err>>

Init ==
    /\ impl \in Impls
    /\ history \in Histories
    /\ pc = "start"
    /\ jobName = Unread
    /\ env = [eventName |-> "", headRef |-> <<>>, ref |-> <<>>]
    /\ currentBranchName = <<>>
    /\ workflowRuns = <<>>
    /\ idx = 0
    /\ calls = <<>>
    /\ sha = NotReturned
    /\ output = <<>>
    /\ err = "none"

Min(a, b) == IF a <= b THEN a ELSE b

(***************************************************************************)
(* The Run History Provider (the GitHub REST API behind octokit and        *)
(* go-github).  Runs come newest first; a call that names no page gets the *)
(* first page of the default size.                                         *)
(***************************************************************************)
AnyBranch == <<"*">>

FirstPage(s, perPage) == SubSeq(s, 1, Min(Len(s), perPage))

\* GET /repos/{owner}/{repo}/actions/runs with the query parameters branch,
\* status (which selects on a run's status or conclusion) and per_page.
ListWorkflowRuns(h, branch, status, perPage) ==
    FirstPage(SelectSeq(h, LAMBDA r :
                  /\ (branch = AnyBranch \/ r.head_branch = branch)
                  /\ (status = "any" \/ r.status = status \/ r.conclusion = status)),
              perPage)

\* GET /repos/{owner}/{repo}/actions/runs/{run_id}/jobs, first page.
ListJobs(h, runId) ==
    LET i == CHOOSE i \in 1..Len(h) : h[i].id = runId
    IN  FirstPage(h[i].jobs, DefaultPerPage)

Call(op, run, ok) == [op |-> op, run |-> run, ok |-> ok]

(***************************************************************************)
(* Strings                                                                 *)
(***************************************************************************)
\* s.split(sep) of JavaScript and strings.Split(s, sep) of Go.
RECURSIVE Split(_, _)
Split(s, sep) ==
    IF \E i \in 1..Len(s) : s[i] = sep
    THEN LET i == CHOOSE i \in 1..Len(s) :
                      s[i] = sep /\ \A j \in 1..(i - 1) : s[j] # sep
         IN  <<SubSeq(s, 1, i - 1)>> \o Split(SubSeq(s, i + 1, Len(s)), sep)
    ELSE <<s>>

RefsHeadsMain == <<"refs", "/", "heads", "/", "main">>
RefsHeads     == <<"refs", "/", "heads">>
RefsPullMerge == <<"refs", "/", "pull", "/", "7", "/", "merge">>

\* What the process environment may hold: GITHUB_EVENT_NAME, GITHUB_HEAD_REF
\* and GITHUB_REF.
Envs ==
    { [eventName |-> "pull_request", headRef |-> Main, ref |-> RefsPullMerge],
      [eventName |-> "pull_request", headRef |-> <<>>, ref |-> RefsPullMerge],
      [eventName |-> "push",         headRef |-> <<>>, ref |-> RefsHeadsMain],
      [eventName |-> "push",         headRef |-> <<>>, ref |-> RefsHeads],
      [eventName |-> "push",         headRef |-> <<>>, ref |-> <<>>] }

JobInputs == {"", "build"}

Thrown      == [ok |-> FALSE, val |-> <<>>]
Returned(v) == [ok |-> TRUE, val |-> v]

(***************************************************************************)
(* index.ts                                                                *)
(***************************************************************************)
\* getCurrentBranchName(): the branch name, or a thrown Error.
getCurrentBranchName(e) ==
    IF e.eventName = "pull_request"
    THEN IF e.headRef = <<>> THEN Thrown ELSE Returned(e.headRef)
    ELSE LET parts == Split(e.ref, "/")
         IN  IF Len(parts) < 3 \/ parts[3] = <<>> THEN Thrown
             ELSE Returned(parts[3])

\* A job record that satisfies the test of the inner loop.
JobSucceeded(job, name) ==
    /\ job.name = name
    /\ job.status = "completed"
    /\ job.conclusion = "success"

\* The inner loop over a run's jobs: does it reach a return?
JobsMatch(jobs, name) == \E k \in 1..Len(jobs) : JobSucceeded(jobs[k], name)

Abort(kind) ==
    /\ pc' = "aborted"
    /\ err' = kind

\* getSha, up to the call of getCurrentBranchName: reads the inputs job
\* (optional) and token (required: core.getInput throws when it is missing).
getSha ==
    /\ impl = "index.ts"
    /\ pc = "start"
    /\ \E job \in JobInputs, tokenSupplied \in BOOLEAN :
          /\ jobName' = job
          /\ IF tokenSupplied
             THEN pc' = "branch" /\ err' = err
             ELSE Abort("input token")
    /\ UNCHANGED <<impl, history, env, currentBranchName, workflowRuns, idx,
                   calls, sha, output>>

\* getSha's call of getCurrentBranchName and its choice of the mode.
getShaBranch ==
    /\ impl = "index.ts"
    /\ pc = "branch"
    /\ \E e \in Envs :
          /\ env' = e
          /\ LET b == getCurrentBranchName(e)
             IN  IF b.ok
                 THEN /\ currentBranchName' = b.val
                      /\ pc' = IF jobName = "" THEN "modeA" ELSE "listRuns"
                      /\ err' = err
                 ELSE /\ currentBranchName' = currentBranchName
                      /\ Abort("config")
    /\ UNCHANGED <<impl, history, jobName, workflowRuns, idx, calls, sha, output>>

\* handleWorkflowRunSha: one call for the newest successful run of the branch.
handleWorkflowRunSha ==
    /\ impl = "index.ts"
    /\ pc = "modeA"
    /\ \E ok \in BOOLEAN :
          /\ calls' = Append(calls, Call("listRuns", 0, ok))
          /\ IF ok
             THEN LET workflow_runs ==
                          ListWorkflowRuns(history, currentBranchName, "success", 1)
                  IN  /\ workflowRuns' = workflow_runs
                      /\ sha' = IF Len(workflow_runs) = 0 THEN NoSha
                                ELSE workflow_runs[1].head_sha
                      /\ pc' = "resolved"
                      /\ err' = err
             ELSE /\ Abort("provider")
                  /\ UNCHANGED <<workflowRuns, sha>>
    /\ UNCHANGED <<impl, history, jobName, env, currentBranchName, idx, output>>

\* handleJobSha, the list call (lines 84-92).
handleJobShaList ==
    /\ impl = "index.ts"
    /\ pc = "listRuns"
    /\ \E ok \in BOOLEAN :
          /\ calls' = Append(calls, Call("listRuns", 0, ok))
          /\ IF ok
             THEN /\ workflowRuns' = ListWorkflowRuns(history, currentBranchName,
                                                      "any", DefaultPerPage)
                  /\ idx' = 1
                  /\ pc' = "scan"
                  /\ err' = err
             ELSE /\ Abort("provider")
                  /\ UNCHANGED <<workflowRuns, idx>>
    /\ UNCHANGED <<impl, history, jobName, env, currentBranchName, sha, output>>

\* handleJobShaRun with the .catch of the job-list call swallowing the error:
\* the loop goes on to the next run.
handleJobShaRun_SwallowError ==
    /\ impl = "index.ts"
    /\ pc = "scan"
    /\ idx <= Len(workflowRuns)
    /\ LET workflowRun == workflowRuns[idx]
       IN  \E ok \in BOOLEAN :
              /\ calls' = Append(calls, Call("listJobs", workflowRun.id, ok))
              /\ IF ok /\ JobsMatch(ListJobs(history, workflowRun.id), jobName)
                 THEN /\ sha' = workflowRun.head_sha
                      /\ pc' = "resolved"
                      /\ UNCHANGED <<idx, err>>
                 ELSE /\ idx' = idx + 1
                      /\ UNCHANGED <<pc, sha, err>>
    /\ UNCHANGED <<impl, history, jobName, env, currentBranchName, workflowRuns,
                   output>>

\* handleJobSha, one iteration of the loop over the runs (lines 96-126).
handleJobShaRun ==
    /\ impl = "index.ts"
    /\ pc = "scan"
    /\ idx <= Len(workflowRuns)
    /\ LET workflowRun == workflowRuns[idx]
       IN  \E ok \in BOOLEAN :
              /\ calls' = Append(calls, Call("listJobs", workflowRun.id, ok))
              /\ IF ~ok
                 THEN Abort("provider") /\ UNCHANGED <<idx, sha>>
                 ELSE IF JobsMatch(ListJobs(history, workflowRun.id), jobName)
                 THEN /\ sha' = workflowRun.head_sha
                      /\ pc' = "resolved"
                      /\ UNCHANGED <<idx, err>>
                 ELSE /\ idx' = idx + 1
                      /\ UNCHANGED <<pc, sha, err>>
    /\ UNCHANGED <<impl, history, jobName, env, currentBranchName, workflowRuns,
                   output>>

\* handleJobShaNone with the fallback of the Go programs: the newest run's hash.
handleJobShaNone_NewestRun ==
    /\ impl = "index.ts"
    /\ pc = "scan"
    /\ idx > Len(workflowRuns)
    /\ sha' = IF Len(workflowRuns) = 0 THEN NoSha ELSE workflowRuns[1].head_sha
    /\ pc' = "resolved"
    /\ UNCHANGED <<impl, history, jobName, env, currentBranchName, workflowRuns,
                   idx, calls, output, err>>

\* handleJobSha, after the loop (lines 128-132).
handleJobShaNone ==
    /\ impl = "index.ts"
    /\ pc = "scan"
    /\ idx > Len(workflowRuns)
    /\ sha' = NoSha
    /\ pc' = "resolved"
    /\ UNCHANGED <<impl, history, jobName, env, currentBranchName, workflowRuns,
                   idx, calls, output, err>>

\* main: core.setOutput("sha", sha).
main ==
    /\ impl = "index.ts"
    /\ pc = "resolved"
    /\ output' = Append(output, [key |-> "sha", value |-> sha])
    /\ pc' = "done"
    /\ UNCHANGED <<impl, history, jobName, env, currentBranchName, workflowRuns,
                   idx, calls, sha, err>>

(***************************************************************************)
(* part_000 and main.go.  getLastSuccessfulWorkflowRunCommit is the same   *)
(* text in both; main.go's main stops after logging the hash.              *)
(***************************************************************************)
\* getCurrentBranchName() of part_000: the variable's value as it is.
goGetCurrentBranchName(e) ==
    IF e.eventName = "pull_request" THEN e.headRef ELSE e.ref

\* main, the two getInput(_, true) calls: each panics on a blank input.
goMain ==
    /\ impl \in GoImpls
    /\ pc = "start"
    /\ \E job \in JobInputs, pathsSupplied \in BOOLEAN :
          IF ~pathsSupplied
          THEN Abort("input paths") /\ UNCHANGED jobName
          ELSE /\ jobName' = job
               /\ IF job = "" THEN Abort("input job")
                  ELSE pc' = "listRuns" /\ err' = err
    /\ UNCHANGED <<impl, history, env, currentBranchName, workflowRuns, idx,
                   calls, sha, output>>

\* getLastSuccessfulWorkflowRunCommit, the list call: no options are passed.
getLastSuccessfulWorkflowRunCommitList ==
    /\ impl \in GoImpls
    /\ pc = "listRuns"
    /\ \E ok \in BOOLEAN :
          /\ calls' = Append(calls, Call("listRuns", 0, ok))
          /\ IF ok
             THEN /\ workflowRuns' = ListWorkflowRuns(history, AnyBranch, "any",
                                                      DefaultPerPage)
                  /\ idx' = 1
                  /\ pc' = "scan"
                  /\ err' = err
             ELSE /\ Abort("provider")
                  /\ UNCHANGED <<workflowRuns, idx>>
    /\ UNCHANGED <<impl, history, jobName, env, currentBranchName, sha, output>>

\* getLastSuccessfulWorkflowRunCommitRun without the return on a match: the
\* hash is kept and the loop goes on to the older runs.
getLastSuccessfulWorkflowRunCommitRun_NoReturn ==
    /\ impl \in GoImpls
    /\ pc = "scan"
    /\ idx <= Len(workflowRuns)
    /\ LET workflowRun == workflowRuns[idx]
       IN  IF workflowRun.status = "completed"
           THEN \E ok \in BOOLEAN :
                  /\ calls' = Append(calls, Call("listJobs", workflowRun.id, ok))
                  /\ IF ~ok
                     THEN Abort("provider") /\ UNCHANGED <<idx, sha>>
                     ELSE /\ sha' = IF JobsMatch(ListJobs(history, workflowRun.id), jobName)
                                    THEN workflowRun.head_sha ELSE sha
                          /\ idx' = idx + 1
                          /\ UNCHANGED <<pc, err>>
           ELSE /\ idx' = idx + 1
                /\ UNCHANGED <<pc, sha, err, calls>>
    /\ UNCHANGED <<impl, history, jobName, env, currentBranchName, workflowRuns,
                   output>>

\* getLastSuccessfulWorkflowRunCommit, one iteration of the loop over the runs.
getLastSuccessfulWorkflowRunCommitRun ==
    /\ impl \in GoImpls
    /\ pc = "scan"
    /\ idx <= Len(workflowRuns)
    /\ LET workflowRun == workflowRuns[idx]
       IN  IF workflowRun.status = "completed"
           THEN \E ok \in BOOLEAN :
                  /\ calls' = Append(calls, Call("listJobs", workflowRun.id, ok))
                  /\ IF ~ok
                     THEN Abort("provider") /\ UNCHANGED <<idx, sha>>
                     ELSE IF JobsMatch(ListJobs(history, workflowRun.id), jobName)
                     THEN /\ sha' = workflowRun.head_sha
                          /\ pc' = "resolved"
                          /\ UNCHANGED <<idx, err>>
                     ELSE /\ idx' = idx + 1
                          /\ UNCHANGED <<pc, sha, err>>
           ELSE /\ idx' = idx + 1
                /\ UNCHANGED <<pc, sha, err, calls>>
    /\ UNCHANGED <<impl, history, jobName, env, currentBranchName, workflowRuns,
                   output>>

\* getLastSuccessfulWorkflowRunCommit, after the loop: WorkflowRuns[0] of an
\* empty slice is a run-time panic (index out of range).
getLastSuccessfulWorkflowRunCommitDefault ==
    /\ impl \in GoImpls
    /\ pc = "scan"
    /\ idx > Len(workflowRuns)
    /\ IF Len(workflowRuns) = 0
       THEN Abort("index") /\ UNCHANGED sha
       ELSE /\ sha' = workflowRuns[1].head_sha
            /\ pc' = "resolved"
            /\ err' = err
    /\ UNCHANGED <<impl, history, jobName, env, currentBranchName, workflowRuns,
                   idx, calls, output>>

\* setOutput("sha", sha) of part_000: appends sha=<value> to the file
\* GITHUB_OUTPUT names, and panics when the file cannot be opened or written.
setOutput ==
    /\ impl = "part_000"
    /\ pc = "resolved"
    /\ \E written \in BOOLEAN :
          IF written
          THEN /\ output' = Append(output, [key |-> "sha", value |-> sha])
               /\ pc' = "log"
               /\ err' = err
          ELSE Abort("output") /\ UNCHANGED output
    /\ UNCHANGED <<impl, history, jobName, env, currentBranchName, workflowRuns,
                   idx, calls, sha>>

\* main of part_000, its last line: logs getCurrentBranchName().
goMainBranch ==
    /\ impl = "part_000"
    /\ pc = "log"
    /\ \E e \in Envs :
          /\ env' = e
          /\ currentBranchName' = goGetCurrentBranchName(e)
    /\ pc' = "done"
    /\ UNCHANGED <<impl, history, jobName, workflowRuns, idx, calls, sha, output,
                   err>>

\* main of main.go after the call: logs the hash, writes no output.
mainGoDone ==
    /\ impl = "main.go"
    /\ pc = "resolved"
    /\ pc' = "done"
    /\ UNCHANGED <<impl, history, jobName, env, currentBranchName, workflowRuns,
                   idx, calls, sha, output, err>>

Next ==
    \/ getSha
    \/ getShaBranch
    \/ handleWorkflowRunSha
    \/ handleJobShaList
    \/ handleJobShaRun
    \/ handleJobShaNone
    \/ main
    \/ goMain
    \/ getLastSuccessfulWorkflowRunCommitList
    \/ getLastSuccessfulWorkflowRunCommitRun
    \/ getLastSuccessfulWorkflowRunCommitDefault
    \/ setOutput
    \/ goMainBranch
    \/ mainGoDone

Spec == Init /\ [][Next]_vars
(***************************************************************************)
(* Vocabulary of the properties                                            *)
(***************************************************************************)
\* The list call succeeded and a job name was given: job-name resolution.
ModeB == Len(calls) >= 1 /\ calls[1].ok /\ jobName \notin {"", Unread}
Resolved == sha # NotReturned

\* The run holds a job of that name that completed with success.
HoldsSuccess(run, name) ==
    \E k \in 1..Len(run.jobs) :
        /\ run.jobs[k].name = name
        /\ run.jobs[k].status = "completed"
        /\ run.jobs[k].conclusion = "success"

\* Positions, in a newest-first list, of the completed runs that hold it.
Matches(runs, name) ==
    { i \in 1..Len(runs) : runs[i].status = "completed" /\ HoldsSuccess(runs[i], name) }

Newest(positions) == CHOOSE i \in positions : \A j \in positions : i <= j

\* C1 (as claimed): in job-name resolution, when the run history holds a
\* completed run with a successful job of the name, the result is the head
\* commit of the newest such run.
C1_NewestCompletedMatch ==
    (ModeB /\ Resolved /\ Matches(workflowRuns, jobName) # {})
        => sha = workflowRuns[Newest(Matches(workflowRuns, jobName))].head_sha

\* C2 (as claimed): when the provider returns zero runs, resolution raises no
\* error and its result is the empty string.
C2_NoRunsEmptyResult ==
    (Len(calls) >= 1 /\ calls[1].ok /\ workflowRuns = <<>>)
        => /\ err \in {"none", "output"}
           /\ pc \notin {"scan", "modeA"} => sha = NoSha

NoRunHoldsSuccess ==
    \A i \in 1..Len(workflowRuns) : ~HoldsSuccess(workflowRuns[i], jobName)

EnvBranch(e) ==
    IF e.eventName = "pull_request" THEN e.headRef
    ELSE IF Len(Split(e.ref, "/")) >= 3 THEN Split(e.ref, "/")[3] ELSE <<>>

EnvRead == env.eventName # ""

\* C4 (as claimed): a commit hash that job-name resolution returns is the head
\* commit of a run on the current branch.
C4_ResultOnCurrentBranch ==
    (ModeB /\ Resolved /\ sha # NoSha /\ EnvRead /\ EnvBranch(env) # <<>>)
        => \E i \in 1..Len(history) :
              /\ history[i].head_sha = sha
              /\ history[i].head_branch = EnvBranch(env)

RunOfId(id) == history[CHOOSE i \in 1..Len(history) : history[i].id = id]

\* C5 (as claimed): job-name resolution fetches the job list of completed runs
\* only, so that no run of another status can be returned as the match.
C5_OnlyCompletedRunsFetched ==
    \A k \in 1..Len(calls) :
        calls[k].op = "listJobs" => RunOfId(calls[k].run).status = "completed"

\* Positions of the successful runs of a branch.
SuccessfulOn(branch) ==
    { i \in 1..Len(history) :
        /\ history[i].head_branch = branch
        /\ history[i].status = "completed"
        /\ history[i].conclusion = "success" }

\* C6 (as claimed): with an empty job input the program does not fail for the
\* missing job name, fetches no job list, and returns the head commit of the
\* newest successful run of the branch, or the empty string when none exists.
C6_NoJobNameModeA ==
    jobName = ""
        => /\ err # "input job"
           /\ \A k \in 1..Len(calls) : calls[k].op # "listJobs"
           /\ Resolved =>
                sha = IF SuccessfulOn(currentBranchName) = {} THEN NoSha
                      ELSE history[Newest(SuccessfulOn(currentBranchName))].head_sha

\* C7 (as claimed): branch resolution yields the head-ref for a pull request
\* and the third segment of the ref otherwise, and fails when that is absent;
\* it never yields the unsplit ref nor an empty name.
C7_BranchResolution ==
    EnvRead
        => IF EnvBranch(env) = <<>>
           THEN pc = "aborted" /\ err = "config"
           ELSE err # "config" /\ currentBranchName = EnvBranch(env)

\* C8: a provider call that fails is the last provider call of the execution,
\* which is aborted with no result and with nothing written to the output.
C8_ProviderErrorAborts ==
    \A k \in 1..Len(calls) :
        ~calls[k].ok
            => /\ k = Len(calls)
               /\ pc = "aborted"
               /\ err = "provider"
               /\ sha = NotReturned
               /\ output = <<>>

C8_Witness ==
    /\ Len(calls) >= 3
    /\ calls[Len(calls)].op = "listJobs"
    /\ ~calls[Len(calls)].ok
    /\ pc = "aborted"

\* The runs of the whole history that the program's list query selects,
\* whatever the page: index.ts asks for a branch, the Go programs for none.
Selected ==
    IF impl = "index.ts"
    THEN SelectSeq(history, LAMBDA r : r.head_branch = currentBranchName)
    ELSE history

\* C9 (as claimed): when the only run that holds a successful job of the name
\* lies beyond the first page of the run list, job-name resolution still
\* returns the head commit of that run.
C9_MatchBeyondFirstPage ==
    \A i \in 1..Len(Selected) :
        ( /\ ModeB /\ Resolved
          /\ i > DefaultPerPage
          /\ Selected[i].status = "completed"
          /\ \A j \in 1..Len(Selected) : HoldsSuccess(Selected[j], jobName) <=> j = i )
            => sha = Selected[i].head_sha

\* Position of a run in the list that was returned.
PosOf(id) == CHOOSE i \in 1..Len(workflowRuns) : workflowRuns[i].id = id

\* Positions of the runs whose job list was fetched, in the order of the calls.
Fetched == [k \in 1..(Len(calls) - 1) |-> PosOf(calls[k + 1].run)]

\* A run the loop does not skip: index.ts skips none, the Go programs skip the
\* runs that are not completed.
Examined(i) == impl = "index.ts" \/ workflowRuns[i].status = "completed"

\* C10: in job-name resolution the job lists are fetched one run at a time from
\* the newest to the oldest; the runs fetched are exactly the examined runs up
\* to the loop's position; every fetch but the last found no match; and a match
\* ends the calls: the last fetch is that of the run whose head commit is
\* returned.
C10_FetchOrderAndShortCircuit ==
    ModeB =>
        /\ \A k \in 2..Len(calls) :
              calls[k].op = "listJobs" /\ \E i \in 1..Len(workflowRuns) :
                                              workflowRuns[i].id = calls[k].run
        /\ \A k \in 1..(Len(Fetched) - 1) :
              /\ Fetched[k] < Fetched[k + 1]
              /\ calls[k + 1].ok
              /\ ~HoldsSuccess(workflowRuns[Fetched[k]], jobName)
        /\ \A k \in 1..Len(Fetched) : Fetched[k] <= idx /\ Examined(Fetched[k])
        /\ \A i \in 1..Len(workflowRuns) :
              (i < idx /\ Examined(i)) => \E k \in 1..Len(Fetched) : Fetched[k] = i
        /\ (Resolved /\ idx <= Len(workflowRuns))
              => /\ Len(Fetched) >= 1
                 /\ Fetched[Len(Fetched)] = idx
                 /\ HoldsSuccess(workflowRuns[idx], jobName)
                 /\ sha = workflowRuns[idx].head_sha

C10_Witness ==
    /\ ModeB /\ Resolved
    /\ Len(Fetched) >= 1
    /\ idx < Len(workflowRuns)
    /\ sha = workflowRuns[idx].head_sha
    /\ pc = "done"
====
